---- MODULE Spec2Model ----
(***************************************************************************)
(* Model of the RusPiRo MMU crate (src/src/lib.rs, ttbr0.rs, ttbr1.rs,     *)
(* el1.rs, el2.rs, config.rs).                                             *)
(*                                                                         *)
(* Machine words are modelled bit-exactly as the set of the positions of   *)
(* their 1 bits (bit 0 = least significant), because table entries are     *)
(* 64-bit values: OR is union, AND is intersection, shifts move the        *)
(* positions; the few sums and differences the code takes are computed on  *)
(* the bits, with their overflow.                                          *)
(***************************************************************************)
EXTENDS Integers, Sequences, FiniteSets, TLC

(***************************************************************************)
(* Bit-exact machine arithmetic                                            *)
(***************************************************************************)
Pow2(n) == 2 ^ n

\* the word holding the natural number n (n < 2^31)
FromNat(n) == {b \in 0..30 : (n \div Pow2(b)) % 2 = 1}

\* the number held by bits lo..hi of a word, halving the range
RECURSIVE ToNatRange(_, _, _)
ToNatRange(w, lo, hi) ==
    IF lo = hi THEN (IF lo \in w THEN Pow2(lo) ELSE 0)
    ELSE LET mid == (lo + hi) \div 2
         IN  ToNatRange(w, lo, mid) + ToNatRange(w, mid + 1, hi)

\* the natural number held by a word whose bits 31.. are clear
ToNat(w) == ToNatRange(w, 0, 30)

AllOnes(width) == 0..(width - 1)
Or(a, b) == a \cup b
And(a, b) == a \cap b
Not(a, width) == AllOnes(width) \ a
\* `<<` of Rust: bits shifted out of the width are lost, in every build
Shl(a, k, width) == {b + k : b \in a} \cap AllOnes(width)
Shr(a, k) == {b - k : b \in {x \in a : x >= k}}

\* bits lo..hi of a word, moved down to bit 0, as a number (hi - lo < 31)
Bits(w, lo, hi) == ToNatRange({x - lo : x \in {y \in w : y >= lo /\ y <= hi}}, 0, hi - lo)

\* a + b on u32, by 16-bit halves: the wrapped sum and whether it overflowed
Add32(a, b) ==
    LET lo == Bits(a, 0, 15) + Bits(b, 0, 15)
        hi == Bits(a, 16, 31) + Bits(b, 16, 31) + (lo \div 65536)
    IN  [val |-> FromNat(lo % 65536) \cup Shl(FromNat(hi % 65536), 16, 32),
         overflow |-> hi >= 65536]

\* n - m on usize for numbers n, m < 2^31: below zero the difference wraps to
\* 2^64 - (m - n), the complement of m - n - 1
SubSmall64(n, m) ==
    [val |-> IF n >= m THEN FromNat(n - m) ELSE Not(FromNat(m - n - 1), 64),
     overflow |-> n < m]

\* w - 1 on usize: the lowest 1 bit is cleared and the bits below it set; zero
\* wraps to all ones
Decrement64(w) ==
    [val |-> IF w = {} THEN AllOnes(64)
             ELSE LET m == CHOOSE i \in w : \A j \in w : i <= j
                  IN  (w \ {m}) \cup (0..(m - 1)),
     overflow |-> w = {}]

\* 0xFFFF_FFFF_FFFF_FFFF - w: no borrow can occur, every bit is inverted
SubFromAllOnes64(w) == Not(w, 64)

(***************************************************************************)
(* config.rs: sizes and the entry fields declared with define_tlb_entry!   *)
(***************************************************************************)
SECTION_SHIFT == 21
PAGE_SHIFT == 12
SECTION_SIZE == Pow2(SECTION_SHIFT)
SECTION_MASK == SECTION_SIZE - 1
PAGE_SIZE == Pow2(PAGE_SHIFT)
PAGE_MASK == PAGE_SIZE - 1

\* a field is its OFFSET and its BITS (1 when BITS is not given)
FieldMask(f) == {f.offset + j : j \in 0..(f.bits - 1)}
\* RegisterFieldValue::new(field, value): the value shifted into the field
FieldValue(f, v) == And(Shl(FromNat(v), f.offset, 64), FieldMask(f))
\* the field read back without the shift down to bit 0
FieldGet_NoShift(w, f) == And(w, FieldMask(f))

\* the value read back from the field of a word
FieldGet(w, f) == Shr(And(w, FieldMask(f)), f.offset)

TABLE_TYPE == [offset |-> 0, bits |-> 2]
TABLE_ADDR == [offset |-> 12, bits |-> 36]
TABLE_PXN == [offset |-> 59, bits |-> 1]
TABLE_XN == [offset |-> 60, bits |-> 1]
TABLE_AP == [offset |-> 61, bits |-> 2]
TABLE_NS == [offset |-> 63, bits |-> 1]

BLOCK_TYPE == [offset |-> 0, bits |-> 2]
BLOCK_MEMATTR == [offset |-> 2, bits |-> 3]
BLOCK_NS == [offset |-> 5, bits |-> 1]
BLOCK_AP == [offset |-> 6, bits |-> 2]
BLOCK_SH == [offset |-> 8, bits |-> 2]
BLOCK_AF == [offset |-> 10, bits |-> 1]
BLOCK_NG == [offset |-> 11, bits |-> 1]
BLOCK_ADDR == [offset |-> 12, bits |-> 36]
BLOCK_C == [offset |-> 52, bits |-> 1]
BLOCK_PXN == [offset |-> 53, bits |-> 1]
BLOCK_XN == [offset |-> 54, bits |-> 1]

\* the enumerated field values used by the table setup
TABLE_TYPE_VALID == 3
TABLE_NS_SET == 1
\* ttbr0.rs names the block type value BLOCK::TYPE::VALID; config.rs declares
\* it as TYPE BLOCK = 0b01 of the block/page entry
BLOCK_TYPE_VALID == 1
BLOCK_TYPE_PAGE == 3
BLOCK_NS_SET == 1
BLOCK_AF_SET == 1
BLOCK_SH_INNER == 3
MAIR0 == 0
MAIR3 == 3
MAIR4 == 4

(***************************************************************************)
(* lib.rs: MmuConfig, the layout of one table set                          *)
(***************************************************************************)
LVL1_ENTRIES == 512
LVL2_ENTRIES == 1024
ENTRY_BYTES == 8

\* link-time addresses of the two statics MMU_CFG (align(4096))
CFG0_BASE == 128 * PAGE_SIZE
CFG1_BASE == 131 * PAGE_SIZE

Lvl1Addr(base, i) == base + i * ENTRY_BYTES
Lvl2Addr(base, i) == base + LVL1_ENTRIES * ENTRY_BYTES + i * ENTRY_BYTES

ZeroLvl1 == [i \in 0..(LVL1_ENTRIES - 1) |-> {}]
ZeroLvl2 == [i \in 0..(LVL2_ENTRIES - 1) |-> {}]

(***************************************************************************)
(* mmu64.rs: MmuConfig, one table set with a page-level pool               *)
(***************************************************************************)
LVL0_ENTRIES_64 == 512
LVL2_ENTRIES_64 == 1024
LVL1_ENTRIES_64 == 513
\* pages of one 2 MB block
PAGES_PER_BLOCK == 512

\* link-time address of the static MMU_CFG of mmu64.rs (align(4096)); the
\* fields lie in declaration order: ttlb_lvl0, ttlb_lvl2, ttlb_lvl1
CFG64_BASE == 136 * PAGE_SIZE
Lvl0Addr64(i) == CFG64_BASE + i * ENTRY_BYTES
Lvl2Addr64(i) == CFG64_BASE + (LVL0_ENTRIES_64 + i) * ENTRY_BYTES
Lvl1Addr64(i) == CFG64_BASE + (LVL0_ENTRIES_64 + LVL2_ENTRIES_64 + i) * ENTRY_BYTES

(***************************************************************************)
(* Inputs of the calls and the bounds of the model                         *)
(***************************************************************************)
\* at most this many initialize calls in one behaviour of Spec
MaxInit == 2
\* at most this many map_memory calls in one behaviour of Spec
MaxMaps == 2

\* currentel::EL as the calls can observe it; 3 stands for the unsupported levels
ELs == {1, 2, 3}
Cores == {0, 1}

\* a u32 region argument given in 2 MB blocks
Blocks32(n) == Shl(FromNat(n), SECTION_SHIFT, 32)

\* (vc_mem_start, vc_mem_size) pairs aligned to 2 MB, in blocks: a region below
\* the device window, one over the first normal blocks, one running into the
\* device window, the Raspberry Pi 3 peripherals, one running past the
\* level-2 array and one whose end does not fit in a u32
AlignedRegions ==
    {<<8, 2>>, <<2, 4>>, <<500, 8>>, <<504, 1>>, <<1020, 8>>, <<2040, 8>>}
AlignedArgs == {[start |-> Blocks32(r[1]), size |-> Blocks32(r[2])] : r \in AlignedRegions}

\* a pair aligned to 1 MB and 512 KB only: 0x0110_0000 (17 MB) and 0x0028_0000
\* (2.5 MB)
MisalignedArgs ==
    {[start |-> FromNat(17 * (SECTION_SIZE \div 2)), size |-> FromNat(5 * (SECTION_SIZE \div 4))]}
InitArgs == AlignedArgs \cup MisalignedArgs

\* origins of map_memory: an address inside a 2 MB block and an aligned one
Origins == {FromNat(2 * SECTION_SIZE + 4660), FromNat(504 * SECTION_SIZE)}
\* sizes of map_memory: one page, and more than one 2 MB block
MapSizes == {PAGE_SIZE, 3 * SECTION_SIZE}
\* the size of the map_memory calls that are mixed with initialize calls
OnePage == {PAGE_SIZE}

(***************************************************************************)
(* State                                                                   *)
(***************************************************************************)
VARIABLES
    el,               \* the exception level read from currentel
    overflow_checks,  \* build profile: arithmetic overflow panics (TRUE) or wraps
    cfg0_lvl1,        \* ttbr0.rs MMU_CFG.ttlb_lvl1 (physical table set)
    cfg0_lvl2,        \* ttbr0.rs MMU_CFG.ttlb_lvl2
    cfg1_lvl1,        \* ttbr1.rs MMU_CFG.ttlb_lvl1 (virtual table set)
    cfg1_lvl2,        \* ttbr1.rs MMU_CFG.ttlb_lvl2
    mmu_on,           \* SCTLR_ELx.M
    ttbr0_reg,        \* address written to TTBR0_ELx, -1 before the first write
    ttbr1_reg,        \* address written to TTBR1_EL1, -1 before the first write
    halted,           \* the calling context ended in a panic
    ninit,            \* initialize calls made so far
    handed,           \* addresses returned by maintain_pages, in call order
    last,             \* the last call: its arguments, outcome and steps
    mmu64_cfg,        \* mmu64.rs MMU_CFG: ttlb_lvl0, ttlb_lvl2, ttlb_lvl1
    mmu64_call,       \* the last call into mmu64.rs: arguments, ttlb_lvl1 before it, outcome, steps
    racers,           \* per core: the position inside a call that is taken step by step
    util              \* the last call of page_align or of the entry codec

tables0 == <<cfg0_lvl1, cfg0_lvl2>>
tables1 == <<cfg1_lvl1, cfg1_lvl2>>
vars == <<el, overflow_checks, cfg0_lvl1, cfg0_lvl2, cfg1_lvl1, cfg1_lvl2, mmu_on,
          ttbr0_reg, ttbr1_reg, halted, ninit, handed, last,
          mmu64_cfg, mmu64_call, racers, util>>
\* the state lib.rs, ttbr0.rs and ttbr1.rs never touch as whole calls
aside == <<mmu64_cfg, mmu64_call, racers, util>>

NoCall ==
    [op |-> "none", core |-> 0, start |-> {}, size |-> {}, origin |-> {},
     attrs |-> {}, outcome |-> "ok", ret |-> {}, idx |-> -1, trace |-> <<>>]

\* mmu64.rs:31-35, `static mut MMU_CFG` starts zeroed
ZeroCfg64 ==
    [ttlb_lvl0 |-> [i \in 0..(LVL0_ENTRIES_64 - 1) |-> {}],
     ttlb_lvl2 |-> [i \in 0..(LVL2_ENTRIES_64 - 1) |-> {}],
     ttlb_lvl1 |-> [i \in 0..(LVL1_ENTRIES_64 - 1) |-> {}]]

NoCall64 ==
    [op |-> "none", core |-> 0, page_from |-> 0, page_count |-> 0, attrs |-> {},
     outcome |-> "ok", before |-> ZeroCfg64.ttlb_lvl1, steps |-> <<>>, n |-> 0]

NoRacers ==
    [c \in Cores |-> [pc |-> "idle", origin |-> {}, attrs |-> {}, idx |-> -1,
                      ret |-> {}, calls |-> 0]]

NoUtil ==
    [fn |-> "none", addr |-> {}, fields |-> <<>>, state |-> "input", out |-> {},
     again |-> {}, back |-> <<>>]

\* the state of lib.rs, ttbr0.rs and ttbr1.rs after load
LibInit ==
    /\ el \in ELs
    /\ overflow_checks \in BOOLEAN
    /\ cfg0_lvl1 = ZeroLvl1
    /\ cfg0_lvl2 = ZeroLvl2
    /\ cfg1_lvl1 = ZeroLvl1
    /\ cfg1_lvl2 = ZeroLvl2
    /\ mmu_on = FALSE
    /\ ttbr0_reg = -1
    /\ ttbr1_reg = -1
    /\ halted = FALSE
    /\ ninit = 0
    /\ handed = <<>>
    /\ last = NoCall

Init ==
    /\ LibInit
    /\ mmu64_cfg = ZeroCfg64
    /\ mmu64_call = NoCall64
    /\ racers = NoRacers
    /\ util = NoUtil

(***************************************************************************)
(* ttbr0.rs: setup_translation_tables, the identity map                    *)
(***************************************************************************)
\* the guard dropped: every core builds
BuildsTables_AnyCore(core) == TRUE

\* `if core == 0`
BuildsTables(core) == core = 0

\* (TABLE::NS::SET | TABLE::TYPE::VALID).raw_value() | (level2_addr as u64)
TableEntry(addr) ==
    Or(Or(FieldValue(TABLE_NS, TABLE_NS_SET), FieldValue(TABLE_TYPE, TABLE_TYPE_VALID)),
       FromNat(addr))

\* the index taken as a page number: i << 12
BlockAddress_PageStep(i) == Shl(FromNat(i), PAGE_SHIFT, 64)

\* (i as u64) << 21
BlockAddress(i) == Shl(FromNat(i), SECTION_SHIFT, 64)

\* first pass: (NS | AF | SH::INNER | MEMATTR::MAIR4 | TYPE::VALID).raw_value()
NormalAttributes ==
    Or(Or(Or(Or(FieldValue(BLOCK_NS, BLOCK_NS_SET), FieldValue(BLOCK_AF, BLOCK_AF_SET)),
             FieldValue(BLOCK_SH, BLOCK_SH_INNER)),
          FieldValue(BLOCK_MEMATTR, MAIR4)),
       FieldValue(BLOCK_TYPE, BLOCK_TYPE_VALID))
NormalBlock(i) == Or(NormalAttributes, BlockAddress(i))

\* the non-secure flag of the first pass copied into the second
VcAttributes_NonSecure ==
    Or(Or(Or(Or(FieldValue(BLOCK_NS, BLOCK_NS_SET), FieldValue(BLOCK_AF, BLOCK_AF_SET)),
             FieldValue(BLOCK_SH, BLOCK_SH_INNER)),
          FieldValue(BLOCK_MEMATTR, MAIR3)),
       FieldValue(BLOCK_TYPE, BLOCK_TYPE_VALID))

\* second pass: (AF | SH::INNER | MEMATTR::MAIR3 | TYPE::VALID).raw_value()
VcAttributes ==
    Or(Or(Or(FieldValue(BLOCK_AF, BLOCK_AF_SET), FieldValue(BLOCK_SH, BLOCK_SH_INNER)),
          FieldValue(BLOCK_MEMATTR, MAIR3)),
       FieldValue(BLOCK_TYPE, BLOCK_TYPE_VALID))
VcBlock(i) == Or(VcAttributes, BlockAddress(i))

\* third pass: (AF | SH::INNER | MEMATTR::MAIR0 | TYPE::VALID).raw_value()
DeviceAttributes ==
    Or(Or(Or(FieldValue(BLOCK_AF, BLOCK_AF_SET), FieldValue(BLOCK_SH, BLOCK_SH_INNER)),
          FieldValue(BLOCK_MEMATTR, MAIR0)),
       FieldValue(BLOCK_TYPE, BLOCK_TYPE_VALID))
\* the access flag left out of the device entries
DeviceBlock_NoAccessFlag(i) ==
    Or(DeviceAttributes \ FieldMask(BLOCK_AF), BlockAddress(i))
DeviceBlock(i) == Or(DeviceAttributes, BlockAddress(i))

\* `for i in 0..4` and `for i in 504..513`
NORMAL_FIRST == 0
NORMAL_END == 4
DEVICE_FIRST == 504
DEVICE_END == 513

\* the entry each of the three loops writes at index i
PassEntry(pass, i) ==
    CASE pass = "normal" -> NormalBlock(i)
      [] pass = "vc" -> VcBlock(i)
      [] pass = "device" -> DeviceBlock(i)

\* the entries of the three loops for every index of the level-2 array
PassEntries ==
    [pass \in {"normal", "vc", "device"} |->
        [i \in 0..(LVL2_ENTRIES - 1) |-> PassEntry(pass, i)]]

\* `for i in lo..hi { write_volatile(&mut MMU_CFG.ttlb_lvl2[i], ..) }`: the
\* index is bounds-checked, so the loop panics at index 1024 with the entries
\* below it written
FillLvl2(lvl2, lo, hi, pass) ==
    [lvl2 |-> [i \in (lo..(hi - 1)) \cap DOMAIN lvl2 |-> PassEntries[pass][i]] @@ lvl2,
     panic |-> lo < hi /\ hi > LVL2_ENTRIES]

\* vc_mem_start >> 21 and (vc_mem_start + vc_mem_size) >> 21, the sum in u32
VcStartBlock(start) == ToNat(Shr(start, SECTION_SHIFT))
VcEnd(start, size) == Add32(start, size)
VcEndBlock(start, size) == ToNat(Shr(VcEnd(start, size).val, SECTION_SHIFT))

\* The whole function on the tables lvl1, lvl2. The result holds the tables as
\* it leaves them, whether it panicked, the address it returns and its steps.
Ttbr0Setup(core, start, size, lvl1, lvl2, checks) ==
    IF ~BuildsTables(core)
    THEN [lvl1 |-> lvl1, lvl2 |-> lvl2, panic |-> FALSE,
          ret |-> Lvl1Addr(CFG0_BASE, 0), trace |-> <<>>]
    ELSE
    LET l1 == [lvl1 EXCEPT ![0] = TableEntry(Lvl2Addr(CFG0_BASE, 0)),
                           ![1] = TableEntry(Lvl2Addr(CFG0_BASE, 512))]
        p1 == FillLvl2(lvl2, NORMAL_FIRST, NORMAL_END, "normal")
        sumPanics == checks /\ VcEnd(start, size).overflow
        p2 == FillLvl2(p1.lvl2, VcStartBlock(start), VcEndBlock(start, size), "vc")
        p3 == FillLvl2(p2.lvl2, DEVICE_FIRST, DEVICE_END, "device")
    IN  IF sumPanics
        THEN [lvl1 |-> l1, lvl2 |-> p1.lvl2, panic |-> TRUE,
              ret |-> Lvl1Addr(CFG0_BASE, 0), trace |-> <<"write_ttbr0_tables">>]
        ELSE IF p2.panic
        THEN [lvl1 |-> l1, lvl2 |-> p2.lvl2, panic |-> TRUE,
              ret |-> Lvl1Addr(CFG0_BASE, 0), trace |-> <<"write_ttbr0_tables">>]
        ELSE [lvl1 |-> l1, lvl2 |-> p3.lvl2, panic |-> FALSE,
              ret |-> Lvl1Addr(CFG0_BASE, 0),
              trace |-> <<"write_ttbr0_tables", "dsb_ishst">>]

(***************************************************************************)
(* ttbr1.rs: setup_translation_tables and maintain_pages, the virtual map  *)
(***************************************************************************)
\* The TTBR1 table setup: on core 0 the last level-1 entry points at the
\* level-2 array; the level-2 entries are left as they are.
Ttbr1Setup(core, lvl1) ==
    IF ~BuildsTables(core)
    THEN [lvl1 |-> lvl1, ret |-> Lvl1Addr(CFG1_BASE, 0), trace |-> <<>>]
    ELSE [lvl1 |-> [lvl1 EXCEPT ![511] = TableEntry(Lvl2Addr(CFG1_BASE, 0))],
          ret |-> Lvl1Addr(CFG1_BASE, 0),
          trace |-> <<"write_ttbr1_tables", "dsb_ishst">>]

\* no scan: the first entry is taken whatever it holds
FirstFree_AlwaysFirst(lvl2) == 0

\* the scan run from the far end: the highest index of a zero entry
FirstFree_Highest(lvl2) ==
    IF \A i \in DOMAIN lvl2 : lvl2[i] # {} THEN -1
    ELSE CHOOSE i \in DOMAIN lvl2 :
             lvl2[i] = {} /\ \A j \in (i + 1)..(LVL2_ENTRIES - 1) : lvl2[j] # {}

\* `.iter_mut().enumerate().find(|(_, entry)| **entry == 0)`: the lowest index
\* of a zero entry, -1 for None
FirstFree(lvl2) ==
    IF \A i \in DOMAIN lvl2 : lvl2[i] # {} THEN -1
    ELSE CHOOSE i \in DOMAIN lvl2 : lvl2[i] = {} /\ \A j \in 0..(i - 1) : lvl2[j] # {}

\* the origin stored as it is, without the mask
TlbValue_Unmasked(origin, attributes) ==
    Or(Or(Or(Or(Shl(FromNat(1), 63, 64), attributes), origin), Shl(FromNat(1), 10, 64)),
       FromNat(1))

\* 0b1 << 63 | attributes | (origin & !0x1F_FFFF) | 1 << 10 | 0b01
TlbValue(origin, attributes) ==
    Or(Or(Or(Or(Shl(FromNat(1), 63, 64), attributes),
             And(origin, Not(FromNat(SECTION_MASK), 64))),
          Shl(FromNat(1), 10, 64)),
       FromNat(1))

\* the index left out of the address: every call is given the first slot
VirtualAddress_IgnoresIndex(idx, origin, checks) ==
    [val |-> Or(SubFromAllOnes64(Decrement64(Shl(FromNat(512), SECTION_SHIFT, 64)).val),
                And(origin, FromNat(SECTION_MASK))),
     panic |-> FALSE]

\* 0xFFFF_FFFF_FFFF_FFFF - (((512 - idx) << 21) - 1), then | origin & 0x1F_FFFF.
\* The two subtractions on usize panic on overflow in a build with overflow
\* checks and wrap in a build without.
VirtualAddress(idx, origin, checks) ==
    LET d1 == SubSmall64(512, idx)
        d2 == Decrement64(Shl(d1.val, SECTION_SHIFT, 64))
    IN  [val |-> Or(SubFromAllOnes64(d2.val), And(origin, FromNat(SECTION_MASK))),
         panic |-> checks /\ (d1.overflow \/ d2.overflow)]

\* The whole function on the level-2 array of the virtual table set.
MaintainPages(origin, attributes, lvl2, checks) ==
    LET idx == FirstFree(lvl2)
    IN  IF idx = -1
        THEN [lvl2 |-> lvl2, panic |-> TRUE, ret |-> {}, idx |-> -1, trace |-> <<>>]
        ELSE LET va == VirtualAddress(idx, origin, checks)
             IN  [lvl2 |-> [lvl2 EXCEPT ![idx] = TlbValue(origin, attributes)],
                  panic |-> va.panic,
                  ret |-> IF va.panic THEN {} ELSE va.val,
                  idx |-> idx,
                  trace |-> <<"write_entry", "dsb_ishst", "dsb_ish", "isb", "dc_civac">>]

(***************************************************************************)
(* el1.rs, el2.rs: the register sequences                                  *)
(***************************************************************************)
DisableMmu(level) ==
    IF level = 1 THEN <<"sctlr_el1_disable", "tlbi_vmalle1">>
    ELSE <<"sctlr_el2_disable", "tlbi_alle2">>

\* the system-control register written first, ahead of the table bases
EnableMmu_EarlyEnable(level) ==
    IF level = 1
    THEN <<"sctlr_el1_enable", "mair_el1", "ttbr0_el1", "ttbr1_el1", "tcr_el1", "isb",
           "nop", "nop", "isb", "tlbi_vmalle1">>
    ELSE <<"sctlr_el2_enable", "mair_el2", "ttbr0_el2", "tcr_el2", "hcr_el2",
           "nop", "nop", "tlbi_alle2">>

EnableMmu(level) ==
    IF level = 1
    THEN <<"mair_el1", "ttbr0_el1", "ttbr1_el1", "tcr_el1", "isb",
           "sctlr_el1_enable", "nop", "nop", "isb", "tlbi_vmalle1">>
    ELSE <<"mair_el2", "ttbr0_el2", "tcr_el2", "hcr_el2",
           "sctlr_el2_enable", "nop", "nop", "tlbi_alle2">>

(***************************************************************************)
(* lib.rs: initialize and map_memory                                       *)
(***************************************************************************)
\* the fallback arm dropped: an unknown level is handled like level 2
Supported_Any(level) == TRUE

\* `match el { 1 => .., 2 => .., _ => unimplemented!() }`
Supported(level) == level \in {1, 2}
\* the second match of initialize: only level 1 sets up and binds TTBR1
UsesTtbr1(level) == level = 1
\* the level test widened to both supported levels
MapsAtLevel_Both(level) == level \in {1, 2}
\* `if el == 1` of map_memory
MapsAtLevel(level) == level = 1

InitializeBody(core, a) ==
    \E t0 \in {Ttbr0Setup(core, a.start, a.size, cfg0_lvl1, cfg0_lvl2, overflow_checks)},
       t1 \in {Ttbr1Setup(core, cfg1_lvl1)},
       call \in {[NoCall EXCEPT !.op = "initialize", !.core = core,
                                !.start = a.start, !.size = a.size]} :
    /\ ninit' = ninit + 1
    /\ UNCHANGED <<el, overflow_checks, cfg1_lvl2, handed, aside>>
    /\ IF ~Supported(el)
       THEN /\ halted' = TRUE
            /\ last' = [call EXCEPT !.outcome = "panic"]
            /\ UNCHANGED <<cfg0_lvl1, cfg0_lvl2, cfg1_lvl1, mmu_on, ttbr0_reg, ttbr1_reg>>
       ELSE /\ cfg0_lvl1' = t0.lvl1
            /\ cfg0_lvl2' = t0.lvl2
            /\ IF t0.panic
               THEN /\ halted' = TRUE
                    /\ mmu_on' = FALSE
                    /\ last' = [call EXCEPT !.outcome = "panic",
                                            !.trace = DisableMmu(el) \o t0.trace]
                    /\ UNCHANGED <<cfg1_lvl1, ttbr0_reg, ttbr1_reg>>
               ELSE /\ halted' = FALSE
                    /\ mmu_on' = TRUE
                    /\ ttbr0_reg' = t0.ret
                    /\ IF UsesTtbr1(el)
                       THEN /\ cfg1_lvl1' = t1.lvl1
                            /\ ttbr1_reg' = t1.ret
                            /\ last' = [call EXCEPT
                                   !.ret = FromNat(t0.ret),
                                   !.trace = DisableMmu(el) \o t0.trace \o t1.trace
                                             \o EnableMmu(el)]
                       ELSE /\ UNCHANGED <<cfg1_lvl1, ttbr1_reg>>
                            /\ last' = [call EXCEPT
                                   !.ret = FromNat(t0.ret),
                                   !.trace = DisableMmu(el) \o t0.trace \o EnableMmu(el)]

MapMemoryBody(origin, size, attributes) ==
    \E call \in {[NoCall EXCEPT !.op = "map_memory", !.origin = origin,
                                !.size = FromNat(size), !.attrs = attributes]} :
    /\ UNCHANGED <<el, overflow_checks, cfg0_lvl1, cfg0_lvl2, cfg1_lvl1, mmu_on,
                   ttbr0_reg, ttbr1_reg, ninit, aside>>
    /\ IF MapsAtLevel(el)
       THEN \E m \in {MaintainPages(origin, attributes, cfg1_lvl2, overflow_checks)} :
            /\ cfg1_lvl2' = m.lvl2
            /\ halted' = m.panic
            /\ handed' = IF m.panic THEN handed ELSE Append(handed, m.ret)
            /\ last' = [call EXCEPT !.outcome = IF m.panic THEN "panic" ELSE "ok",
                                    !.ret = m.ret, !.idx = m.idx, !.trace = m.trace]
       ELSE /\ UNCHANGED <<cfg1_lvl2, halted, handed>>
            /\ last' = [call EXCEPT !.ret = origin]

\* attribute arguments of map_memory: non-cacheable inner-shareable, and device
MapAttributes ==
    {Or(FieldValue(BLOCK_MEMATTR, MAIR3), FieldValue(BLOCK_SH, BLOCK_SH_INNER)),
     FieldValue(BLOCK_MEMATTR, MAIR0)}

Initialize ==
    /\ ~halted
    /\ ninit < MaxInit
    /\ \E core \in Cores, a \in InitArgs : InitializeBody(core, a)

MapMemory ==
    /\ ~halted
    /\ Len(handed) < MaxMaps
    /\ \E origin \in Origins, size \in OnePage, attributes \in MapAttributes :
           MapMemoryBody(origin, size, attributes)

Next == Initialize \/ MapMemory

Spec == Init /\ [][Next]_vars

(***************************************************************************)
(* Second specification: one boot at level 1, then map_memory until the    *)
(* allocator stops. The origin varies over the first MaxVaried calls.      *)
(***************************************************************************)
\* the calls of SpecFill whose origin is drawn from Origins
MaxVaried == 2

\* the Raspberry Pi 3 boot call: initialize(0, 0x3F00_0000, 0x20_0000)
BootArgs == [start |-> Blocks32(504), size |-> Blocks32(1)]
\* the origin and attributes of the calls after the varied ones
FillOrigin == FromNat(3 * SECTION_SIZE + 8)
FillAttributes == Or(FieldValue(BLOCK_MEMATTR, MAIR3), FieldValue(BLOCK_SH, BLOCK_SH_INNER))

InitFill == Init /\ el = 1

BootInitialize ==
    /\ ~halted
    /\ ninit = 0
    /\ InitializeBody(0, BootArgs)

MapMemoryFill ==
    /\ ~halted
    /\ ninit = 1
    /\ \E origin \in (IF Len(handed) < MaxVaried THEN Origins ELSE {FillOrigin}),
          size \in MapSizes :
           MapMemoryBody(origin, size, FillAttributes)

NextFill == BootInitialize \/ MapMemoryFill

SpecFill == InitFill /\ [][NextFill]_vars

(***************************************************************************)
(* mmu64.rs: initialize_mmu and maintain_pages, the block splitter         *)
(***************************************************************************)
\* calls into mmu64.rs per behaviour
MaxCalls64 == 2

NORMAL_END_64 == 504
DEVICE_END_64 == 513

\* `0x1 << 63 | (level1_addr as u64) | 0b11`
TableEntry64(addr) == {63} \cup FromNat(addr) \cup {0, 1}
\* `0x0 << 63 | (level2_page_addr as u64) | 0b11`
PageTableEntry64(addr) == FromNat(addr) \cup {0, 1}
\* `i * 0x20_0000 | 1 << 10 | 0b11 << 8 | 0b100 << 2 | 0b01`
NormalBlock64(i) == FromNat(i * SECTION_SIZE) \cup {10} \cup {8, 9} \cup {4} \cup {0}
\* `i * 0x20_0000 | 1 << 10 | 0b01`
DeviceBlock64(i) == FromNat(i * SECTION_SIZE) \cup {10} \cup {0}

\* setup_page_tables: both level-0 entries and all 513 level-1 entries
SetupPageTables(cfg) ==
    [cfg EXCEPT
       !.ttlb_lvl0 = [i \in DOMAIN cfg.ttlb_lvl0 |->
                        IF i = 0 THEN TableEntry64(Lvl1Addr64(0))
                        ELSE IF i = 1 THEN TableEntry64(Lvl1Addr64(PAGES_PER_BLOCK))
                        ELSE cfg.ttlb_lvl0[i]],
       !.ttlb_lvl1 = [i \in DOMAIN cfg.ttlb_lvl1 |->
                        IF i < NORMAL_END_64 THEN NormalBlock64(i)
                        ELSE IF i < DEVICE_END_64 THEN DeviceBlock64(i)
                        ELSE cfg.ttlb_lvl1[i]]]

\* the stores of setup_page_tables in program order, and the barrier
SetupSteps ==
    <<[t |-> "lvl0", i |-> 0], [t |-> "lvl0", i |-> 1]>>
    \o [k \in 1..DEVICE_END_64 |-> [t |-> "lvl1", i |-> k - 1]]
    \o <<[t |-> "dsb_ishst", i |-> 0]>>

\* disable_mmu_el1 / disable_mmu_el2
DisableSteps64(level) ==
    IF level = 1 THEN <<[t |-> "sctlr_el1_disable", i |-> 0]>>
    ELSE <<[t |-> "sctlr_el2_disable", i |-> 0]>>

\* initialize_mmu_el1 / initialize_mmu_el2
EnableSteps64(level) ==
    IF level = 1
    THEN [k \in 1..6 |-> [t |-> <<"mair_el1", "ttbr0_el1", "tcr_el1", "sctlr_el1_enable",
                                  "nop", "nop">>[k], i |-> 0]]
    ELSE [k \in 1..7 |-> [t |-> <<"mair_el2", "ttbr0_el2", "tcr_el2", "hcr_el2",
                                  "sctlr_el2_enable", "nop", "nop">>[k], i |-> 0]]

\* `& 0xFFF0000000000FFC`: the upper and lower attribute bits of an entry
ATTRIBUTE_BITS_64 == (2..11) \cup (52..63)

\* a page entry written with the attributes of the block and the block's own bits
PageEntry64_KeepsBlockBits(attributes, block_attributes, i, block_idx_1) ==
    Or(Or(Or(attributes, block_attributes),
          FromNat(i * PAGE_SIZE + block_idx_1 * SECTION_SIZE)), {0, 1})

\* `attributes | (i as u64 * 0x1000 + block_idx_1 as u64 * 0x20_0000) | 0b11`,
\* block_attributes being what the entry carries outside the requested range
PageEntry64(attributes, block_attributes, i, block_idx_1) ==
    Or(Or(attributes, FromNat(i * PAGE_SIZE + block_idx_1 * SECTION_SIZE)), {0, 1})

\* `let block_page_end = (block_idx_2 + 1) * 512`
BlockPageEnd(block_idx_1, block_idx_2) == (block_idx_2 + 1) * PAGES_PER_BLOCK

\* the level-1 stores placed ahead of the page-table stores
StoreOrder64_ParentFirst(stores, parents) == parents \o stores

\* program order of the volatile stores of maintain_pages: the three loops over
\* ttlb_lvl2 first, the level-1 entries after them
StoreOrder64(stores, parents) == stores \o parents

\* maintain_pages: the three loops over ttlb_lvl2 (every index is bounds
\* checked, the first index outside the array ends the call in a panic), then
\* the level-1 entries, then the barrier and the invalidation
MaintainPages64(cfg, page_from, page_count, page_attributes) ==
    LET block_idx_1 == page_from \div PAGES_PER_BLOCK
        block_idx_2 == (page_from + page_count) \div PAGES_PER_BLOCK
    IN  IF block_idx_1 >= LVL1_ENTRIES_64
        THEN [cfg |-> cfg, panic |-> TRUE, steps |-> <<>>]
        ELSE
        LET block_attributes == And(cfg.ttlb_lvl1[block_idx_1], ATTRIBUTE_BITS_64)
            block_page_start == page_from - block_idx_1 * PAGES_PER_BLOCK
            block_page_end == BlockPageEnd(block_idx_1, block_idx_2)
            loops_end == IF block_page_end > block_page_start + page_count
                         THEN block_page_end ELSE block_page_start + page_count
            written == IF loops_end > LVL2_ENTRIES_64 THEN LVL2_ENTRIES_64 ELSE loops_end
            panic == loops_end > LVL2_ENTRIES_64
            lvl2 == [i \in DOMAIN cfg.ttlb_lvl2 |->
                       IF i >= written THEN cfg.ttlb_lvl2[i]
                       ELSE IF i >= block_page_start /\ i < block_page_start + page_count
                       THEN PageEntry64(page_attributes, block_attributes, i, block_idx_1)
                       ELSE PageEntry64(block_attributes, block_attributes, i, block_idx_1)]
            lvl1a == [cfg.ttlb_lvl1 EXCEPT ![block_idx_1] = PageTableEntry64(Lvl2Addr64(0))]
            lvl1b == IF block_idx_1 # block_idx_2
                     THEN [lvl1a EXCEPT ![block_idx_2] =
                               TableEntry64(Lvl2Addr64(PAGES_PER_BLOCK))]
                     ELSE lvl1a
            stores == [k \in 1..written |-> [t |-> "lvl2", i |-> k - 1]]
        IN  IF panic
            THEN [cfg |-> [cfg EXCEPT !.ttlb_lvl2 = lvl2], panic |-> TRUE, steps |-> stores]
            ELSE [cfg |-> [cfg EXCEPT !.ttlb_lvl2 = lvl2, !.ttlb_lvl1 = lvl1b],
                  panic |-> FALSE,
                  steps |-> StoreOrder64(stores,
                                <<[t |-> "lvl1", i |-> block_idx_1]>>
                                \o (IF block_idx_1 # block_idx_2
                                    THEN <<[t |-> "lvl1", i |-> block_idx_2]>> ELSE <<>>))
                            \o <<[t |-> "dsb_ishst", i |-> 0], [t |-> "tlbi_vmalle1", i |-> 0]>>]

\* page ranges handed to maintain_pages: inside block 0 (at its start, in the
\* middle, up to its last page), inside blocks 1, 2 and 504, across the end of
\* block 0, and beyond the level-1 table
SplitRequests ==
    {[page_from |-> r[1], page_count |-> r[2]] :
       r \in {<<0, 1>>, <<4, 2>>, <<509, 2>>, <<510, 2>>, <<500, 20>>,
              <<PAGES_PER_BLOCK + 4, 2>>, <<2 * PAGES_PER_BLOCK + 4, 2>>,
              <<504 * PAGES_PER_BLOCK + 4, 2>>,
              <<LVL1_ENTRIES_64 * PAGES_PER_BLOCK, 1>>}}
\* page attributes of the requests: device memory, and non-cacheable never-execute
PageAttributes64 ==
    {Or(FieldValue(BLOCK_MEMATTR, MAIR0), FieldValue(BLOCK_AF, BLOCK_AF_SET)),
     Or(Or(FieldValue(BLOCK_MEMATTR, MAIR3), FieldValue(BLOCK_AF, BLOCK_AF_SET)),
        FieldValue(BLOCK_XN, 1))}

InitializeMmu64Body(core) ==
       \E call \in {[NoCall64 EXCEPT !.op = "initialize_mmu", !.core = core,
                                     !.before = mmu64_cfg.ttlb_lvl1, !.n = mmu64_call.n + 1]} :
       /\ UNCHANGED <<el, overflow_checks, tables0, tables1, ttbr1_reg, ninit, handed,
                      last, racers, util>>
       /\ IF ~Supported(el)
          THEN /\ halted' = TRUE
               /\ mmu64_call' = [call EXCEPT !.outcome = "panic"]
               /\ UNCHANGED <<mmu64_cfg, mmu_on, ttbr0_reg>>
          ELSE /\ halted' = FALSE
               /\ mmu64_cfg' = IF BuildsTables(core) THEN SetupPageTables(mmu64_cfg)
                               ELSE mmu64_cfg
               /\ mmu_on' = TRUE
               /\ ttbr0_reg' = Lvl0Addr64(0)
               /\ mmu64_call' = [call EXCEPT !.steps =
                      DisableSteps64(el)
                      \o (IF BuildsTables(core) THEN SetupSteps ELSE <<>>)
                      \o EnableSteps64(el)]

InitializeMmu64 ==
    /\ ~halted
    /\ mmu64_call.n < MaxCalls64
    /\ \E core \in Cores : InitializeMmu64Body(core)

MaintainPages64Body(req, attributes) ==
       \E m \in {MaintainPages64(mmu64_cfg, req.page_from, req.page_count, attributes)} :
       /\ UNCHANGED <<el, overflow_checks, tables0, tables1, mmu_on, ttbr0_reg,
                      ttbr1_reg, ninit, handed, last, racers, util>>
       /\ mmu64_cfg' = m.cfg
       /\ halted' = m.panic
       /\ mmu64_call' = [NoCall64 EXCEPT
              !.op = "maintain_pages", !.page_from = req.page_from,
              !.page_count = req.page_count, !.attrs = attributes,
              !.outcome = IF m.panic THEN "panic" ELSE "ok",
              !.before = mmu64_cfg.ttlb_lvl1, !.steps = m.steps, !.n = mmu64_call.n + 1]

MaintainPages64Call ==
    /\ ~halted
    /\ mmu64_call.n < MaxCalls64
    /\ \E req \in SplitRequests, attributes \in PageAttributes64 :
           MaintainPages64Body(req, attributes)

NextSplit == InitializeMmu64 \/ MaintainPages64Call

SpecSplit == Init /\ [][NextSplit]_vars

(***************************************************************************)
(* mmu64.rs: initialize_mmu on core 0 at EL1, then maintain_pages calls on *)
(* blocks 0, 1 and 2                                                       *)
(***************************************************************************)
\* page ranges of the calls after the boot: inside block 0 (twice), up to the
\* last page of block 0, the whole of block 0, across the end of block 0, inside block 1,
\* across the end of block 1
PoolRequests ==
    {[page_from |-> r[1], page_count |-> r[2]] :
       r \in {<<4, 2>>, <<8, 1>>, <<510, 2>>, <<0, PAGES_PER_BLOCK>>, <<500, 20>>,
              <<PAGES_PER_BLOCK + 4, 2>>, <<PAGES_PER_BLOCK + 500, 20>>}}

BootMmu64 ==
    /\ ~halted
    /\ mmu64_call.n = 0
    /\ InitializeMmu64Body(0)

MaintainPages64Pool ==
    /\ ~halted
    /\ mmu64_call.n >= 1
    /\ mmu64_call.n <= MaxCalls64
    /\ \E req \in PoolRequests, attributes \in PageAttributes64 :
           MaintainPages64Body(req, attributes)

NextPool == BootMmu64 \/ MaintainPages64Pool

SpecPool == InitFill /\ [][NextPool]_vars

(***************************************************************************)
(* ttbr1.rs: maintain_pages run by two cores at once. The scan for a zero  *)
(* entry and the store into it are separate accesses to the shared static, *)
(* nothing orders the accesses of one core against those of the other.     *)
(***************************************************************************)
\* map_memory calls per core
MaxRaceCalls == 2

\* a scan that finds nothing to hand out twice: the store looks for a zero
\* entry again
WriteIndex_Rescans(found, lvl2) == FirstFree(lvl2)

\* `if let Some((idx, entry)) = block_entry`: the store goes through the
\* reference the scan returned, whatever the entry holds by then
WriteIndex(found, lvl2) == found

\* map_memory up to the end of the scan of maintain_pages
RaceScan(c) ==
    /\ ~halted
    /\ MapsAtLevel(el)
    /\ racers[c].pc = "idle"
    /\ racers[c].calls < MaxRaceCalls
    /\ \E origin \in Origins, attributes \in {FillAttributes} :
       \E idx \in {FirstFree(cfg1_lvl2)} :
          IF idx = -1
          THEN /\ halted' = TRUE
               /\ UNCHANGED racers
          ELSE /\ halted' = FALSE
               /\ racers' = [racers EXCEPT ![c] =
                     [pc |-> "found", origin |-> origin, attrs |-> attributes,
                      idx |-> idx, ret |-> {}, calls |-> racers[c].calls]]
    /\ UNCHANGED <<el, overflow_checks, tables0, tables1, mmu_on, ttbr0_reg, ttbr1_reg,
                   ninit, handed, last, mmu64_cfg, mmu64_call, util>>

\* the rest of maintain_pages: the store, the barriers, the address returned
RaceWrite(c) ==
    /\ ~halted
    /\ racers[c].pc = "found"
    /\ \E idx \in {WriteIndex(racers[c].idx, cfg1_lvl2)} :
       \E va \in {VirtualAddress(idx, racers[c].origin, overflow_checks)} :
          /\ cfg1_lvl2' = [cfg1_lvl2 EXCEPT
                             ![idx] = TlbValue(racers[c].origin, racers[c].attrs)]
          /\ halted' = va.panic
          /\ handed' = IF va.panic THEN handed ELSE Append(handed, va.val)
          /\ racers' = [racers EXCEPT ![c] =
                [@ EXCEPT !.pc = "idle", !.idx = idx,
                          !.ret = IF va.panic THEN {} ELSE va.val, !.calls = @ + 1]]
          /\ last' = [NoCall EXCEPT
                !.op = "map_memory", !.core = c, !.origin = racers[c].origin,
                !.size = FromNat(PAGE_SIZE), !.attrs = racers[c].attrs,
                !.outcome = IF va.panic THEN "panic" ELSE "ok",
                !.ret = IF va.panic THEN {} ELSE va.val, !.idx = idx,
                !.trace = <<"write_entry", "dsb_ishst", "dsb_ish", "isb", "dc_civac">>]
    /\ UNCHANGED <<el, overflow_checks, tables0, cfg1_lvl1, mmu_on, ttbr0_reg, ttbr1_reg,
                   ninit, mmu64_cfg, mmu64_call, util>>

InitRace == Init /\ el = 1

NextRace == \E c \in Cores : RaceScan(c) \/ RaceWrite(c)

SpecRace == InitRace /\ [][NextRace]_vars

(***************************************************************************)
(* lib.rs initialize called by both cores at EL1, each call taken in       *)
(* steps: disable_mmu, the stores of the table setup (core 0 only), and    *)
(* enable_mmu. No step waits for another core. SCTLR_EL1 and the table     *)
(* base registers exist per core: racers[c].pc = "enabled" says that core  *)
(* c has translation on, mmu_on and the register variables follow the core *)
(* that wrote last.                                                        *)
(***************************************************************************)
\* the positions of a call between its steps, in program order for core 0
BuildPositions == <<"disabled", "lvl1", "normal", "vc", "device", "ttbr1">>

BootUnchanged == UNCHANGED <<el, overflow_checks, halted, handed, last,
                             mmu64_cfg, mmu64_call, util>>

\* `1 => el1::disable_mmu()`
BootDisable(c) ==
    /\ ~halted
    /\ racers[c].pc \in {"idle", "enabled"}
    /\ racers[c].calls < MaxRaceCalls
    /\ racers' = [racers EXCEPT ![c] = [@ EXCEPT !.pc = "disabled", !.calls = @ + 1]]
    /\ mmu_on' = FALSE
    /\ ninit' = ninit + 1
    /\ UNCHANGED <<tables0, tables1, ttbr0_reg, ttbr1_reg>>
    /\ BootUnchanged

\* the next group of stores of ttbr0 / ttbr1 setup_translation_tables with the
\* Raspberry Pi 3 arguments: the two level-1 entries, the normal pass, the
\* VideoCore pass, the device pass, the level-1 entry of the virtual set. On a
\* core other than 0 both functions return without a store.
BootBuild(c) ==
    /\ ~halted
    /\ racers[c].pc \in {"disabled", "lvl1", "normal", "vc", "device"}
    /\ UNCHANGED <<mmu_on, ttbr0_reg, ttbr1_reg, ninit>>
    /\ BootUnchanged
    /\ IF ~BuildsTables(c)
       THEN /\ racers[c].pc = "disabled"
            /\ racers' = [racers EXCEPT ![c] = [@ EXCEPT !.pc = "ttbr1"]]
            /\ UNCHANGED <<tables0, tables1>>
       ELSE \E k \in 1..5 :
            /\ racers[c].pc = BuildPositions[k]
            /\ racers' = [racers EXCEPT ![c] = [@ EXCEPT !.pc = BuildPositions[k + 1]]]
            /\ cfg0_lvl1' = IF k = 1
                  THEN [cfg0_lvl1 EXCEPT ![0] = TableEntry(Lvl2Addr(CFG0_BASE, 0)),
                                         ![1] = TableEntry(Lvl2Addr(CFG0_BASE, 512))]
                  ELSE cfg0_lvl1
            /\ cfg0_lvl2' =
                  IF k = 2 THEN FillLvl2(cfg0_lvl2, NORMAL_FIRST, NORMAL_END, "normal").lvl2
                  ELSE IF k = 3
                  THEN FillLvl2(cfg0_lvl2, VcStartBlock(BootArgs.start),
                                VcEndBlock(BootArgs.start, BootArgs.size), "vc").lvl2
                  ELSE IF k = 4
                  THEN FillLvl2(cfg0_lvl2, DEVICE_FIRST, DEVICE_END, "device").lvl2
                  ELSE cfg0_lvl2
            /\ cfg1_lvl1' = IF k = 5 THEN Ttbr1Setup(c, cfg1_lvl1).lvl1 ELSE cfg1_lvl1
            /\ UNCHANGED cfg1_lvl2

\* `el1::enable_mmu(ttlb0_base_addr, ttlb1_base_addr)`
BootEnable(c) ==
    /\ ~halted
    /\ racers[c].pc = "ttbr1"
    /\ racers' = [racers EXCEPT ![c] = [@ EXCEPT !.pc = "enabled"]]
    /\ mmu_on' = TRUE
    /\ ttbr0_reg' = Lvl1Addr(CFG0_BASE, 0)
    /\ ttbr1_reg' = Lvl1Addr(CFG1_BASE, 0)
    /\ UNCHANGED <<tables0, tables1, ninit>>
    /\ BootUnchanged

NextBoot == \E c \in Cores : BootDisable(c) \/ BootBuild(c) \/ BootEnable(c)

SpecBoot == InitRace /\ [][NextBoot]_vars

(***************************************************************************)
(* lib.rs: page_align; config.rs, macros.rs: the entry fields as a codec   *)
(***************************************************************************)
\* addr + PAGE_MASK on usize: the low 12 bits are added as numbers, a carry
\* increments the bits above (the lowest clear bit is set, the bits between
\* are cleared); with no clear bit above, the sum wraps
AddPageMask64(w) ==
    LET low == Bits(w, 0, PAGE_SHIFT - 1) + PAGE_MASK
        high == w \ AllOnes(PAGE_SHIFT)
        free == (PAGE_SHIFT..63) \ w
    IN  IF low < PAGE_SIZE
        THEN [val |-> FromNat(low) \cup high, overflow |-> FALSE]
        ELSE IF free = {}
        THEN [val |-> FromNat(low % PAGE_SIZE), overflow |-> TRUE]
        ELSE LET m == CHOOSE i \in free : \A j \in free : i <= j
             IN  [val |-> FromNat(low % PAGE_SIZE) \cup {b \in high : b > m} \cup {m},
                  overflow |-> FALSE]

\* the address rounded down instead of up
PageAlign_Down(addr, checks) ==
    [val |-> And(addr, Not(FromNat(PAGE_MASK), 64)), panic |-> FALSE]

\* `(addr + config::PAGE_MASK) & !config::PAGE_MASK`; the addition panics on
\* overflow in a build with overflow checks and wraps in a build without
PageAlign(addr, checks) ==
    [val |-> And(AddPageMask64(addr).val, Not(FromNat(PAGE_MASK), 64)),
     panic |-> checks /\ AddPageMask64(addr).overflow]

\* page_size()
PageSize == PAGE_SIZE

\* the fields of the two entry formats by name
TTLB_TABLE ==
    [TYPE |-> TABLE_TYPE, ADDR |-> TABLE_ADDR, PXN |-> TABLE_PXN, XN |-> TABLE_XN,
     AP |-> TABLE_AP, NS |-> TABLE_NS]
TTLB_BLOCKPAGE ==
    [TYPE |-> BLOCK_TYPE, MEMATTR |-> BLOCK_MEMATTR, NS |-> BLOCK_NS, AP |-> BLOCK_AP,
     SH |-> BLOCK_SH, AF |-> BLOCK_AF, NG |-> BLOCK_NG, ADDR |-> BLOCK_ADDR,
     C |-> BLOCK_C, PXN |-> BLOCK_PXN, XN |-> BLOCK_XN]
\* the format an entry variant is written in
FormatOf(variant) == IF variant = "table" THEN TTLB_TABLE ELSE TTLB_BLOCKPAGE

\* with_value(value) for a value given as a word
FieldWord(f, value) == And(Shl(value, f.offset, 64), FieldMask(f))
\* the field values of an entry combined with `|`
Encode(format, values) == UNION {FieldWord(format[n], values[n]) : n \in DOMAIN format}
\* every field of the format read from a word
Decode(format, w) == [n \in DOMAIN format |-> FieldGet(w, format[n])]

\* values of a field: zero, all ones, and for the address field a mixed one
FieldSamples(f) ==
    IF f.bits = 1 THEN {{}, {0}}
    ELSE IF f.bits = 36 THEN {{}, AllOnes(36), {0, 9, 18, 35}}
    ELSE {{}, AllOnes(f.bits)}

TableInputs ==
    {[TYPE |-> FromNat(TABLE_TYPE_VALID), ADDR |-> a, PXN |-> p, XN |-> x, AP |-> ap,
      NS |-> ns] :
       a \in FieldSamples(TABLE_ADDR), p \in FieldSamples(TABLE_PXN),
       x \in FieldSamples(TABLE_XN), ap \in FieldSamples(TABLE_AP),
       ns \in FieldSamples(TABLE_NS)}
BlockPageInputs(type) ==
    {[TYPE |-> FromNat(type), MEMATTR |-> m, NS |-> ns, AP |-> ap, SH |-> sh, AF |-> af,
      NG |-> ng, ADDR |-> a, C |-> c, PXN |-> p, XN |-> x] :
       m \in FieldSamples(BLOCK_MEMATTR), ns \in FieldSamples(BLOCK_NS),
       ap \in FieldSamples(BLOCK_AP), sh \in FieldSamples(BLOCK_SH),
       af \in FieldSamples(BLOCK_AF), ng \in FieldSamples(BLOCK_NG),
       a \in FieldSamples(BLOCK_ADDR), c \in FieldSamples(BLOCK_C),
       p \in FieldSamples(BLOCK_PXN), x \in FieldSamples(BLOCK_XN)}

\* addresses given to page_align: around the first page boundaries, with a
\* carry through bits 12..31 and 12..46, and at the top of the address space
AlignInputs ==
    {FromNat(n) : n \in {0, 1, PAGE_MASK, PAGE_SIZE, PAGE_SIZE + 1, 2 * PAGE_SIZE - 1,
                         2 * PAGE_SIZE, 74565}}
    \cup {AllOnes(32), AllOnes(32) \ AllOnes(PAGE_SHIFT), AllOnes(47) \ {5, 40},
          {63}, {63, 0}, AllOnes(64) \ AllOnes(PAGE_SHIFT),
          (AllOnes(64) \ AllOnes(PAGE_SHIFT)) \cup {0}, AllOnes(64) \ {PAGE_SHIFT},
          AllOnes(64)}

UtilInputs ==
    {[NoUtil EXCEPT !.fn = "page_align", !.addr = a] : a \in AlignInputs}
    \cup {[NoUtil EXCEPT !.fn = "table", !.fields = v] : v \in TableInputs}
    \cup {[NoUtil EXCEPT !.fn = "block", !.fields = v] :
             v \in BlockPageInputs(BLOCK_TYPE_VALID)}
    \cup {[NoUtil EXCEPT !.fn = "page", !.fields = v] :
             v \in BlockPageInputs(BLOCK_TYPE_PAGE)}

InitUtil ==
    /\ LibInit
    /\ el = 1
    /\ mmu64_cfg = ZeroCfg64
    /\ mmu64_call = NoCall64
    /\ racers = NoRacers
    /\ util \in UtilInputs

UtilUnchanged ==
    UNCHANGED <<el, overflow_checks, tables0, tables1, mmu_on, ttbr0_reg, ttbr1_reg,
                ninit, handed, last, mmu64_cfg, mmu64_call, racers>>

\* page_align(addr)
PageAlignCall ==
    /\ ~halted
    /\ util.fn = "page_align"
    /\ util.state = "input"
    /\ \E r \in {PageAlign(util.addr, overflow_checks)} :
          /\ halted' = r.panic
          /\ util' = IF r.panic THEN [util EXCEPT !.state = "panic"]
                     ELSE [util EXCEPT !.state = "done", !.out = r.val]
    /\ UtilUnchanged

\* page_align(page_align(addr))
PageAlignAgain ==
    /\ ~halted
    /\ util.fn = "page_align"
    /\ util.state = "done"
    /\ \E r \in {PageAlign(util.out, overflow_checks)} :
          /\ halted' = r.panic
          /\ util' = IF r.panic THEN [util EXCEPT !.state = "panic"]
                     ELSE [util EXCEPT !.state = "twice", !.again = r.val]
    /\ UtilUnchanged

\* an entry built from its field values
EncodeCall ==
    /\ util.fn \in {"table", "block", "page"}
    /\ util.state = "input"
    /\ util' = [util EXCEPT !.state = "encoded",
                            !.out = Encode(FormatOf(util.fn), util.fields)]
    /\ UNCHANGED halted
    /\ UtilUnchanged

\* the fields read back from the entry
DecodeCall ==
    /\ util.fn \in {"table", "block", "page"}
    /\ util.state = "encoded"
    /\ util' = [util EXCEPT !.state = "decoded",
                            !.back = Decode(FormatOf(util.fn), util.out)]
    /\ UNCHANGED halted
    /\ UtilUnchanged

NextUtil == PageAlignCall \/ PageAlignAgain \/ EncodeCall \/ DecodeCall

SpecUtil == InitUtil /\ [][NextUtil]_vars

(***************************************************************************)
(* Reading entries and addresses back                                      *)
(***************************************************************************)
EntryType(w) == ToNat(FieldGet(w, BLOCK_TYPE))
MemAttr(w) == ToNat(FieldGet(w, BLOCK_MEMATTR))
NonSecure(w) == ToNat(FieldGet(w, BLOCK_NS)) = BLOCK_NS_SET
AccessFlag(w) == ToNat(FieldGet(w, BLOCK_AF)) = BLOCK_AF_SET
InnerShareable(w) == ToNat(FieldGet(w, BLOCK_SH)) = BLOCK_SH_INNER
OutputAddress(w) == And(w, FieldMask(BLOCK_ADDR))

\* w is a Block of the memory profile with index mair, access flag set,
\* inner-shareable, with output address i x 2 MB
DecodesTo(w, mair, i) ==
    /\ EntryType(w) = BLOCK_TYPE_VALID
    /\ MemAttr(w) = mair
    /\ AccessFlag(w)
    /\ InnerShareable(w)
    /\ OutputAddress(w) = BlockAddress(i)

\* the 2 MB slot of an address and the offset in the slot
SlotOf(va) == va \ AllOnes(SECTION_SHIFT)
OffsetOf(va) == And(va, AllOnes(SECTION_SHIFT))

\* the entries of one level-2 table of the 4 KB granule: the table the level-1
\* entry 511 of the virtual set points at covers this many slots
AvailableSlots == PAGE_SIZE \div ENTRY_BYTES
\* 0xFFFF_FFFF_C000_0000, the lowest address translated through level-1
\* entry 511, and 0xFFFF_FFFF_FFE0_0000, the highest slot
FirstSlot == AllOnes(64) \ AllOnes(30)
TopSlot == AllOnes(64) \ AllOnes(SECTION_SHIFT)
\* a slot address plus 2 MB, modulo 2^64
AddSection(w) ==
    LET free == (SECTION_SHIFT..63) \ w
    IN  IF free = {} THEN w \ (SECTION_SHIFT..63)
        ELSE LET p == CHOOSE x \in free : free \cap (SECTION_SHIFT..(x - 1)) = {}
             IN  (w \ (SECTION_SHIFT..(p - 1))) \cup {p}

\* the last call was a build by core 0 that returned
BuildCompleted == last.op = "initialize" /\ last.core = 0 /\ last.outcome = "ok"
\* the level-2 indices of the carve-out of the last initialize call, as far as
\* the array holds them
LastCarveOut ==
    LET first == ToNat(Shr(last.start, SECTION_SHIFT))
        count == ToNat(Shr(last.size, SECTION_SHIFT))
    IN  (first..(first + count - 1)) \cap DOMAIN cfg0_lvl2
DeviceWindow == DEVICE_FIRST..(DEVICE_END - 1)

(***************************************************************************)
(* Claims about the identity map (specification Spec)                      *)
(***************************************************************************)
\* C1: after a build by core 0, every level-2 entry of the physical set below
\* the carve-out start is a Block of the normal-memory profile, access flag
\* set, inner-shareable, with output address i x 2 MB; none is left Invalid.
C1_NormalBelowCarveOut ==
    BuildCompleted =>
        \A i \in 0..(ToNat(Shr(last.start, SECTION_SHIFT)) - 1) :
            i \in DOMAIN cfg0_lvl2 => DecodesTo(cfg0_lvl2[i], MAIR4, i)

\* a build whose carve-out starts above the entries of the first pass
C1_Witness ==
    BuildCompleted /\ ToNat(Shr(last.start, SECTION_SHIFT)) > NORMAL_END

C3_RaspberryPiScenario ==
    (/\ last.op = "initialize"
     /\ last.core = 0
     /\ last.start = FromNat(504 * SECTION_SIZE)
     /\ last.size = FromNat(SECTION_SIZE)
     /\ Supported(el))
    => /\ last.outcome = "ok"
       /\ DecodesTo(cfg0_lvl2[504], MAIR0, 504)
       /\ DecodesTo(cfg0_lvl2[0], MAIR4, 0)
       /\ OutputAddress(cfg0_lvl2[0]) = {}

C3_Witness ==
    /\ last.op = "initialize"
    /\ last.core = 0
    /\ last.start = FromNat(504 * SECTION_SIZE)
    /\ last.size = FromNat(SECTION_SIZE)
    /\ el = 1
    /\ mmu_on

\* C4: an initialize call by a core other than 0 changes no entry of either
\* table set; at a supported level it binds the root address a call by core 0
\* binds (the address of ttlb_lvl1[0] of the physical set) and it disables and
\* enables translation again.
C4_OtherCoresWriteNothing ==
    [][(ninit' = ninit + 1 /\ last'.core # 0) =>
          /\ UNCHANGED <<tables0, tables1>>
          /\ Supported(el) =>
                /\ last'.outcome = "ok"
                /\ ttbr0_reg' = Lvl1Addr(CFG0_BASE, 0)
                /\ last'.ret = FromNat(ttbr0_reg')
                /\ last'.trace = DisableMmu(el) \o EnableMmu(el)
                /\ mmu_on']_vars

\* core 1 has called initialize after core 0 built the tables
C4_Witness ==
    /\ last.op = "initialize"
    /\ last.core = 1
    /\ last.outcome = "ok"
    /\ ninit = 2
    /\ cfg0_lvl2[0] # {}
    /\ mmu_on

\* the device pass, the last of the build, has written its last entry
PhysicalBuilt == cfg0_lvl2[DEVICE_END - 1] # {}

\* C5: once the first build of the physical table set has completed, no later
\* operation changes an entry of it.
C5_PhysicalBuiltOnce ==
    [][PhysicalBuilt => UNCHANGED tables0]_vars

\* core 0 has completed a second build
C5_Witness ==
    BuildCompleted /\ ninit = 2 /\ PhysicalBuilt

\* C10: at level 2 every step leaves all entries of the virtual table set
\* zero, and a map_memory call returns its origin and changes no entry of
\* either table set.
C10_Level2Inert ==
    [][el = 2 =>
          /\ cfg1_lvl1' = ZeroLvl1
          /\ cfg1_lvl2' = ZeroLvl2
          /\ last'.op = "map_memory" =>
                /\ last'.ret = last'.origin
                /\ last'.outcome = "ok"
                /\ UNCHANGED <<tables0, tables1>>]_vars

\* map_memory was called at level 2 after an initialize
C10_Witness ==
    /\ el = 2
    /\ last.op = "map_memory"
    /\ last.origin # {}
    /\ ninit >= 1
    /\ mmu_on

(***************************************************************************)
(* Claims about the virtual allocator (specification SpecFill)             *)
(***************************************************************************)
\* C6: the 2 MB slots of the addresses returned by the successful map_memory
\* calls are pairwise distinct, for every number of calls.
C6_SlotsDisjoint ==
    Cardinality({SlotOf(handed[k]) : k \in 1..Len(handed)}) = Len(handed)

\* two calls beyond the last slot of the range have returned
C6_Witness ==
    Len(handed) = AvailableSlots + 2

\* C7 (as the code has it): the first successful call returns an address in
\* the slot at 0xFFFF_FFFF_C000_0000, the lowest of the range, and each later
\* one returns the slot 2 MB above its predecessor's, modulo 2^64.
C7_SlotsAscend ==
    \A k \in 1..Len(handed) :
        SlotOf(handed[k]) =
            IF k = 1 THEN FirstSlot ELSE AddSection(SlotOf(handed[k - 1]))

\* the call after the last slot of the range has returned
C7_Witness ==
    Len(handed) = AvailableSlots + 1 /\ last.idx = AvailableSlots

\* C7 as stated: the first slot is the top one and each later slot lies 2 MB
\* below its predecessor.
C7_SlotsDescendFromTop ==
    \A k \in 1..Len(handed) :
        IF k = 1 THEN SlotOf(handed[k]) = TopSlot
        ELSE AddSection(SlotOf(handed[k])) = SlotOf(handed[k - 1])

\* C8: once the slots are consumed a map_memory call fails; a failing call
\* writes no entry; a call that returns gives an address inside the range
\* translated through the virtual table set, in a slot not handed out before.
C8_ExhaustionIsFatal ==
    [][last'.op = "map_memory" =>
          /\ Len(handed) >= AvailableSlots => last'.outcome = "panic"
          /\ last'.outcome = "panic" => cfg1_lvl2' = cfg1_lvl2
          /\ last'.outcome = "ok" =>
                /\ FirstSlot \subseteq last'.ret
                /\ \A k \in 1..Len(handed) : SlotOf(handed[k]) # SlotOf(last'.ret)]_vars

\* the call made with all slots of the range consumed
C8_Witness ==
    last.op = "map_memory" /\ last.idx = AvailableSlots

\* C9: a map_memory call that returns keeps the offset of the origin in its
\* 2 MB block, and the bits above are the base of the slot it consumed.
C9_OffsetAndSlotBase ==
    (last.op = "map_memory" /\ last.outcome = "ok") =>
        /\ OffsetOf(last.ret) = OffsetOf(last.origin)
        /\ last.idx < AvailableSlots
        /\ SlotOf(last.ret) = Or(FirstSlot, BlockAddress(last.idx))

\* a call with an origin inside its block has returned
C9_Witness ==
    last.op = "map_memory" /\ last.outcome = "ok" /\ OffsetOf(last.origin) # {}

(***************************************************************************)
(* Claims about the failure paths of initialize (specification Spec)       *)
(***************************************************************************)
EnableSteps == {"sctlr_el1_enable", "sctlr_el2_enable"}
\* the steps of a call that write table entries
TableWrites == {"write_ttbr0_tables", "write_ttbr1_tables", "write_entry"}
Misaligned(w) == And(w, FromNat(SECTION_MASK)) # {}

\* C11: an initialize call at a level other than 1 and 2 ends in a panic,
\* changes no table entry and has no step that enables translation.
C11_UnsupportedLevelIsFatal ==
    [][(ninit' = ninit + 1 /\ el \notin {1, 2}) =>
          /\ halted'
          /\ last'.outcome = "panic"
          /\ UNCHANGED <<tables0, tables1>>
          /\ ~mmu_on'
          /\ \A i \in DOMAIN last'.trace :
                 last'.trace[i] \notin EnableSteps \cup TableWrites]_vars

\* initialize was called at an unsupported level
C11_Witness ==
    el = 3 /\ last.op = "initialize" /\ halted /\ ninit = 1

\* C12: a build by core 0 with a start or a size that is no multiple of 2 MB
\* ends in a panic.
C12_MisalignedIsFatal ==
    (/\ last.op = "initialize"
     /\ last.core = 0
     /\ el \in {1, 2}
     /\ Misaligned(last.start) \/ Misaligned(last.size))
    => last.outcome = "panic"

\* a build with a misaligned region was requested at a supported level
C12_Witness ==
    /\ last.op = "initialize"
    /\ last.core = 0
    /\ el = 1
    /\ Misaligned(last.start)
    /\ Misaligned(last.size)

(***************************************************************************)
(* Claims about the order of the steps of initialize (specification Spec)  *)
(***************************************************************************)
DisableSteps == {"sctlr_el1_disable", "sctlr_el2_disable"}
\* the memory-attribute, table-base and translation-control register writes
ConfigSteps(level) ==
    IF level = 1 THEN {"mair_el1", "ttbr0_el1", "ttbr1_el1", "tcr_el1"}
    ELSE {"mair_el2", "ttbr0_el2", "tcr_el2"}
StepsOf(tr) == {tr[i] : i \in DOMAIN tr}
\* every step of the set a comes before every step of the set b
AllBefore(tr, a, b) ==
    \A i, j \in DOMAIN tr : (tr[i] \in a /\ tr[j] \in b) => i < j

\* C19: an initialize call at level 1 or 2 starts by disabling translation;
\* its table writes (made by core 0 only) come after the disable and before
\* the register writes, which come before the enable; a call that returns has
\* written every configuration register and left the root addresses of the
\* table setup in the table-base registers.
C19_InitializeOrder ==
    (last.op = "initialize" /\ el \in {1, 2}) =>
        /\ last.trace # <<>> /\ last.trace[1] \in DisableSteps
        /\ AllBefore(last.trace, DisableSteps, TableWrites)
        /\ AllBefore(last.trace, TableWrites, ConfigSteps(el))
        /\ AllBefore(last.trace, TableWrites, EnableSteps)
        /\ AllBefore(last.trace, ConfigSteps(el), EnableSteps)
        /\ last.core # 0 => StepsOf(last.trace) \cap TableWrites = {}
        /\ last.outcome = "panic" => StepsOf(last.trace) \cap EnableSteps = {}
        /\ last.outcome = "ok" =>
              /\ ConfigSteps(el) \subseteq StepsOf(last.trace)
              /\ StepsOf(last.trace) \cap EnableSteps # {}
              /\ last.core = 0 => "write_ttbr0_tables" \in StepsOf(last.trace)
              /\ mmu_on
              /\ ttbr0_reg = Lvl1Addr(CFG0_BASE, 0)
              /\ el = 1 => ttbr1_reg = Lvl1Addr(CFG1_BASE, 0)

\* core 0 has completed initialize at level 2
C19_Witness ==
    last.op = "initialize" /\ last.core = 0 /\ last.outcome = "ok" /\ el = 2

\* the last n steps of a call
LastSteps(tr, n) == SubSeq(tr, Len(tr) - n + 1, Len(tr))

\* C20: at both levels an initialize call that returns ends with: barrier,
\* system-control write enabling translation, two no-operations, barrier,
\* invalidation of all translation-cache entries.
C20_EnableSequence ==
    (last.op = "initialize" /\ last.outcome = "ok" /\ el \in {1, 2}) =>
        /\ Len(last.trace) >= 6
        /\ LastSteps(last.trace, 6) =
               <<"isb",
                 IF el = 1 THEN "sctlr_el1_enable" ELSE "sctlr_el2_enable",
                 "nop", "nop", "isb",
                 IF el = 1 THEN "tlbi_vmalle1" ELSE "tlbi_alle2">>

\* initialize has returned at level 2 on a core other than 0
C20_Witness ==
    last.op = "initialize" /\ last.core = 1 /\ last.outcome = "ok" /\ el = 2

(***************************************************************************)
(* Claims about the entry a map_memory call writes (specification SpecFill)*)
(***************************************************************************)
\* C18: a map_memory call that returns changes exactly one entry of the
\* virtual level-2 array, the zero entry of lowest index; the k-th such call
\* uses index k - 1 whatever its size; the entry is a Block (type bits 01) with
\* the origin rounded down to 2 MB as output address, the attribute bits of
\* the call, the access flag and bit 63, and no other bit.
C18_OneEntryPerCall ==
    [][(last'.op = "map_memory" /\ last'.outcome = "ok") =>
          /\ Len(handed') = Len(handed) + 1
          /\ last'.idx = Len(handed)
          /\ cfg1_lvl2[last'.idx] = {}
          /\ \A j \in 0..(last'.idx - 1) : cfg1_lvl2[j] # {}
          /\ \A j \in DOMAIN cfg1_lvl2 : j # last'.idx => cfg1_lvl2'[j] = cfg1_lvl2[j]
          /\ EntryType(cfg1_lvl2'[last'.idx]) = 1
          /\ OutputAddress(cfg1_lvl2'[last'.idx]) = last'.origin \ AllOnes(SECTION_SHIFT)
          /\ cfg1_lvl2'[last'.idx] =
                 {0, 10, 63} \cup last'.attrs \cup (last'.origin \ AllOnes(SECTION_SHIFT))
          /\ UNCHANGED <<tables0, cfg1_lvl1>>]_vars

\* the third call that returned asked for more than one block
C18_Witness ==
    /\ last.op = "map_memory"
    /\ last.outcome = "ok"
    /\ last.idx = 2
    /\ last.size = FromNat(3 * SECTION_SIZE)


(***************************************************************************)
(* The block splitter of mmu64.rs                                          *)
(***************************************************************************)
\* the block and the page range of the last maintain_pages call
SplitBlock == mmu64_call.page_from \div PAGES_PER_BLOCK
SplitStart == mmu64_call.page_from - SplitBlock * PAGES_PER_BLOCK
SplitRange == SplitStart..(SplitStart + mmu64_call.page_count - 1)
\* the requested range lies inside one block whose level-1 entry was a Block
SplitsOneBlock ==
    /\ mmu64_call.op = "maintain_pages"
    /\ SplitBlock < LVL1_ENTRIES_64
    /\ mmu64_call.page_count >= 1
    /\ SplitStart + mmu64_call.page_count <= PAGES_PER_BLOCK
    /\ EntryType(mmu64_call.before[SplitBlock]) = BLOCK_TYPE_VALID
\* the memory profile, shareability and access flag of w and v agree
SameProfile(w, v) ==
    /\ MemAttr(w) = MemAttr(v)
    /\ FieldGet(w, BLOCK_SH) = FieldGet(v, BLOCK_SH)
    /\ AccessFlag(w) = AccessFlag(v)

\* C13: whenever maintain_pages is called for a page range inside one block
\* whose level-1 entry is a Block, the call completes, and every page entry of
\* the block outside the range is a Page entry with the memory profile,
\* shareability and access flag of the original Block entry.
C13_OutsideRangePreserved ==
    SplitsOneBlock =>
        /\ mmu64_call.outcome = "ok"
        /\ \A i \in (0..(PAGES_PER_BLOCK - 1)) \ SplitRange :
              /\ EntryType(mmu64_cfg.ttlb_lvl2[i]) = BLOCK_TYPE_PAGE
              /\ SameProfile(mmu64_cfg.ttlb_lvl2[i],
                             mmu64_call.before[SplitBlock])

\* pages 4 and 5 of block 2, after the tables were set up: the call panics
C13_Witness ==
    /\ SplitsOneBlock
    /\ SplitBlock = 2
    /\ mmu64_call.outcome = "panic"
    /\ halted

\* C14: after every maintain_pages call that reaches the page table, each page
\* entry whose index lies in the requested range is a Page entry (type 11)
\* holding exactly the requested attributes, the address of its page and the
\* type bits: no attribute bit of the original block is left in it.
C14_InsideRangeExact ==
    (mmu64_call.op = "maintain_pages" /\ SplitBlock < LVL1_ENTRIES_64) =>
        \A i \in SplitRange \cap DOMAIN mmu64_cfg.ttlb_lvl2 :
           /\ EntryType(mmu64_cfg.ttlb_lvl2[i]) = BLOCK_TYPE_PAGE
           /\ And(mmu64_cfg.ttlb_lvl2[i], ATTRIBUTE_BITS_64) = mmu64_call.attrs
           /\ mmu64_cfg.ttlb_lvl2[i] =
                 Or(Or(mmu64_call.attrs,
                       FromNat(i * PAGE_SIZE + SplitBlock * SECTION_SIZE)), {0, 1})

\* two pages of block 1 switched to non-cacheable never-execute, the block
\* having been a normal-memory Block
C14_Witness ==
    /\ SplitsOneBlock
    /\ SplitBlock = 1
    /\ mmu64_call.outcome = "ok"
    /\ MemAttr(mmu64_call.attrs) = MAIR3
    /\ MemAttr(mmu64_call.before[1]) = MAIR4
    /\ EntryType(mmu64_cfg.ttlb_lvl1[1]) = TABLE_TYPE_VALID


(***************************************************************************)
(* Two cores in map_memory                                                 *)
(***************************************************************************)
\* core d has returned from a call that used level-2 index i
Returned(d, i) ==
    /\ racers[d].pc = "idle"
    /\ racers[d].calls >= 1
    /\ racers[d].idx = i

\* C15: the store of a map_memory call goes to the index its scan found,
\* whatever the entry holds by then. When the other core has meanwhile
\* returned from a call that found the same index, the store replaces that
\* call's entry, no other entry changes, and the address returned lies in the
\* slot of the address the other call returned.
C15_RaceOnFreeSlot ==
    [][\A c \in Cores :
         (racers[c].pc = "found" /\ racers'[c].pc = "idle") =>
            /\ racers'[c].idx = racers[c].idx
            /\ cfg1_lvl2'[racers[c].idx] = TlbValue(racers[c].origin, racers[c].attrs)
            /\ \A j \in DOMAIN cfg1_lvl2 :
                  j # racers[c].idx => cfg1_lvl2'[j] = cfg1_lvl2[j]
            /\ \A d \in Cores \ {c} :
                  Returned(d, racers[c].idx) =>
                     /\ cfg1_lvl2[racers[c].idx] =
                           TlbValue(racers[d].origin, racers[d].attrs)
                     /\ SlotOf(racers'[c].ret) = SlotOf(racers[d].ret)
                     /\ Len(handed') >
                           Cardinality({j \in 0..Len(handed') : cfg1_lvl2'[j] # {}})]_vars

\* both cores have returned from their first call, both calls used index 0 for
\* different origins: the entry maps the origin of core 1 only, and the two
\* addresses handed out lie in one slot
C15_Witness ==
    /\ Returned(0, 0)
    /\ Returned(1, 0)
    /\ racers[0].calls = 1
    /\ racers[1].calls = 1
    /\ Len(handed) = 2
    /\ SlotOf(handed[1]) = SlotOf(handed[2])
    /\ OutputAddress(cfg1_lvl2[0]) = SlotOf(racers[1].origin)
    /\ OutputAddress(cfg1_lvl2[0]) # SlotOf(racers[0].origin)
    /\ cfg1_lvl2[1] = {}


(***************************************************************************)
(* page_align and the entry codec                                          *)
(***************************************************************************)
\* a <= b for two words
Leq(a, b) ==
    LET d == (a \ b) \cup (b \ a)
    IN  d = {} \/ (CHOOSE i \in d : \A j \in d : j <= i) \in b
\* w is a multiple of the page size
PageMultiple(w) == And(w, FromNat(PageSize - 1)) = {}
\* the page multiple below the non-zero page multiple w
PageBelow(w) == Shl(Decrement64(Shr(w, PAGE_SHIFT)).val, PAGE_SHIFT, 64)
\* a + 4095 fits in 64 bits: a is at most 0xFFFF_FFFF_FFFF_F000
AlignFits(a) == Leq(a, AllOnes(64) \ AllOnes(PAGE_SHIFT))

\* C16: for every address a with a + 4095 below 2^64, page_align(a) returns
\* the smallest multiple of 4096 that is >= a (a multiple, >= a, and the
\* multiple below it is < a); it returns a itself when a is a multiple, and
\* page_align applied to the result returns the result.
C16_PageAlignRoundsUp ==
    (util.fn = "page_align" /\ AlignFits(util.addr)) =>
        /\ util.state # "panic"
        /\ util.state \in {"done", "twice"} =>
              /\ PageMultiple(util.out)
              /\ Leq(util.addr, util.out)
              /\ util.out # {} => ~Leq(util.addr, PageBelow(util.out))
              /\ PageMultiple(util.addr) => util.out = util.addr
              /\ util.addr \subseteq AllOnes(18) =>
                    ToNat(util.out) =
                       ((ToNat(util.addr) + PageSize - 1) \div PageSize) * PageSize
        /\ util.state = "twice" => util.again = util.out

\* 0xFFFF_FFFF_FFFF_EFFF is rounded up, with a carry through every bit above
\* bit 12, to 0xFFFF_FFFF_FFFF_F000, and that is rounded to itself
C16_Witness ==
    /\ util.fn = "page_align"
    /\ util.addr = AllOnes(64) \ {PAGE_SHIFT}
    /\ util.state = "twice"
    /\ util.out = AllOnes(64) \ AllOnes(PAGE_SHIFT)
    /\ util.again = util.out

\* C17: for each entry variant (Table, Block, Page) the fields read back
\* from the entry built from a combination of field values are those values,
\* and the fields of the format occupy pairwise disjoint bits of the word.
C17_CodecRoundTrip ==
    /\ \A format \in {TTLB_TABLE, TTLB_BLOCKPAGE} :
          \A n1 \in DOMAIN format, n2 \in DOMAIN format :
             n1 # n2 => FieldMask(format[n1]) \cap FieldMask(format[n2]) = {}
    /\ (util.fn \in {"table", "block", "page"} /\ util.state = "decoded") =>
          util.back = util.fields

\* a Page entry with every field at its highest value, read back
C17_Witness ==
    /\ util.fn = "page"
    /\ util.state = "decoded"
    /\ \A n \in DOMAIN TTLB_BLOCKPAGE \ {"TYPE"} :
          util.fields[n] = AllOnes(TTLB_BLOCKPAGE[n].bits)
    /\ util.back = util.fields
    /\ EntryType(util.out) = BLOCK_TYPE_PAGE


(***************************************************************************)
(* Claims about map_memory and the entries of both table sets              *)
(* (specifications Spec and SpecGrow)                                      *)
(***************************************************************************)
\* initialize and map_memory in any order at EL1, the one level that has both
\* table sets (the identity map is built the same way at every level): the
\* region arguments are the Raspberry Pi 3 peripherals or a misaligned pair
GrowArgs == {BootArgs} \cup MisalignedArgs

InitializeAgain ==
    /\ ~halted
    /\ ninit < MaxInit
    /\ \E core \in Cores, a \in GrowArgs : InitializeBody(core, a)

MapMemoryGrow ==
    /\ ~halted
    /\ Len(handed) < MaxMaps
    /\ \E origin \in Origins, attributes \in MapAttributes :
           MapMemoryBody(origin, PAGE_SIZE, attributes)

NextGrow == InitializeAgain \/ MapMemoryGrow

SpecGrow == InitFill /\ [][NextGrow]_vars

\* the steps that invalidate translation look-aside entries
TlbInvalidations == {"tlbi_vmalle1", "tlbi_alle2"}
\* the steps of maintain_pages behind the store of the entry
StepsAfterWrite(tr) ==
    IF \E i \in DOMAIN tr : tr[i] = "write_entry"
    THEN SubSeq(tr, 1 + (CHOOSE i \in DOMAIN tr : tr[i] = "write_entry"), Len(tr))
    ELSE <<>>

\* C21: a successful map_memory call at level 1 has, behind the store of the
\* new entry, exactly the steps store-store barrier, full data barrier,
\* instruction barrier, cache clean and invalidate of the entry, and a
\* translation look-aside invalidation, in this order.
C21_BarriersThenInvalidate ==
    (last.op = "map_memory" /\ last.outcome = "ok" /\ MapsAtLevel(el)) =>
        /\ Len(StepsAfterWrite(last.trace)) = 5
        /\ SubSeq(StepsAfterWrite(last.trace), 1, 4)
              = <<"dsb_ishst", "dsb_ish", "isb", "dc_civac">>
        /\ StepsAfterWrite(last.trace)[5] \in TlbInvalidations

\* a successful call at level 1: the call ends with the cache maintenance,
\* no invalidation follows
C21_Witness ==
    /\ last.op = "map_memory"
    /\ last.outcome = "ok"
    /\ MapsAtLevel(el)
    /\ StepsAfterWrite(last.trace) = <<"dsb_ishst", "dsb_ish", "isb", "dc_civac">>
    /\ cfg1_lvl2[last.idx] # {}

\* C22: no step of initialize or map_memory (a repeated initialize by core 0
\* and the disable and enable inside it included) changes a level-2 entry of
\* the virtual table set that is non-zero, and the entry written for an
\* address handed out earlier stays as it is.
C22_VirtualSetOnlyGrows ==
    [][/\ \A j \in DOMAIN cfg1_lvl2 : cfg1_lvl2[j] # {} => cfg1_lvl2'[j] = cfg1_lvl2[j]
       /\ \A k \in DOMAIN handed :
             /\ handed'[k] = handed[k]
             /\ cfg1_lvl2[k - 1] # {}
             /\ cfg1_lvl2'[k - 1] = cfg1_lvl2[k - 1]]_vars

\* core 0 has called initialize twice at level 1, a map_memory call lies
\* before the second initialize and one behind it
C22_Witness ==
    /\ el = 1
    /\ ninit = 2
    /\ last.op = "map_memory"
    /\ last.outcome = "ok"
    /\ Len(handed) = 2
    /\ mmu_on
    /\ cfg0_lvl2[0] # {}
    /\ EntryType(cfg1_lvl2[0]) = BLOCK_TYPE_VALID
    /\ EntryType(cfg1_lvl2[1]) = BLOCK_TYPE_VALID

\* the address bits of an entry below the 2 MB boundary
SectionLowBits == PAGE_SHIFT..(SECTION_SHIFT - 1)
\* the bits of the fields TYPE and ADDR of a block or page entry
TypeMask == FieldMask(BLOCK_TYPE)
AddressMask == FieldMask(BLOCK_ADDR)
\* the level-1 entry w points at one 512-entry half of the level-2 array of
\* the table set at base, and that address is a multiple of 4 KB
PointsAtHalf(w, base) ==
    /\ And(w, FieldMask(TABLE_ADDR)) \in
          {FromNat(Lvl2Addr(base, 0)), FromNat(Lvl2Addr(base, LVL1_ENTRIES))}
    /\ w \subseteq FieldMask(TABLE_ADDR) \cup FieldMask(TABLE_TYPE) \cup FieldMask(TABLE_NS)
    /\ Lvl2Addr(base, 0) % PAGE_SIZE = 0
    /\ Lvl2Addr(base, LVL1_ENTRIES) % PAGE_SIZE = 0
\* the type bits of a Block entry (01) and of a Page entry (11)
BlockTypeBits == FieldValue(BLOCK_TYPE, BLOCK_TYPE_VALID)
PageTypeBits == FieldValue(BLOCK_TYPE, BLOCK_TYPE_PAGE)
\* the level-2 entry w is not valid, or a Block or Page entry with an aligned
\* output address
AlignedOutput(w) ==
    \/ 0 \notin w
    \/ /\ w \cap TypeMask = BlockTypeBits
       /\ w \cap SectionLowBits = {}
    \/ /\ w \cap TypeMask = PageTypeBits
       /\ (w \cap AddressMask) \cap AllOnes(PAGE_SHIFT) = {}

\* every entry of a level-2 array is aligned
AllAligned(lvl2) == \A j \in DOMAIN lvl2 : AlignedOutput(lvl2[j])

IsTable64(w) == {0, 1} \subseteq w
IsBlock64(w) == 0 \in w /\ 1 \notin w
\* the address bits of an entry
AddressOf64(w) == w \cap AddressMask
\* the two 512-entry halves of ttlb_lvl2, by the index of their first entry
PageTables64 == {0, PAGES_PER_BLOCK}
PageTableAddress64 == [t \in PageTables64 |-> FromNat(Lvl2Addr64(t))]
\* the blocks whose level-1 entry is a Table entry
SplitParents == {b \in DOMAIN mmu64_cfg.ttlb_lvl1 : IsTable64(mmu64_cfg.ttlb_lvl1[b])}
\* entry i of page table t is the Page entry of page i of block b
MapsPage(t, i, b) ==
    /\ IsTable64(mmu64_cfg.ttlb_lvl2[t + i])
    /\ AddressOf64(mmu64_cfg.ttlb_lvl2[t + i]) = FromNat(b * SECTION_SIZE + i * PAGE_SIZE)

\* C24: in every state, the level-1 entry of every split block points at one
\* of the page tables, entry i of that page table is a Page entry whose output
\* address is the block's base + i * 4 KB, and no two level-1 entries point at
\* the same page table.
C24_EveryPageMappedOnce ==
    /\ \A b \in SplitParents :
          \E t \in PageTables64 :
             /\ AddressOf64(mmu64_cfg.ttlb_lvl1[b]) = PageTableAddress64[t]
             /\ \A i \in 0..(PAGES_PER_BLOCK - 1) : MapsPage(t, i, b)
    /\ \A b, c \in SplitParents :
          b # c => AddressOf64(mmu64_cfg.ttlb_lvl1[b]) # AddressOf64(mmu64_cfg.ttlb_lvl1[c])

\* blocks 0 and 1 were split one after the other: both level-1 entries point at
\* ttlb_lvl2[0], whose entries hold the pages of block 1
C24_Witness ==
    /\ SplitParents = {0, 1}
    /\ AddressOf64(mmu64_cfg.ttlb_lvl1[0]) = PageTableAddress64[0]
    /\ AddressOf64(mmu64_cfg.ttlb_lvl1[1]) = PageTableAddress64[0]
    /\ MapsPage(0, 4, 1)
    /\ ~MapsPage(0, 4, 0)

\* the blocks whose Block entry the last call replaced by a Table entry
NewlySplit ==
    {b \in DOMAIN mmu64_cfg.ttlb_lvl1 :
        IsBlock64(mmu64_call.before[b]) /\ IsTable64(mmu64_cfg.ttlb_lvl1[b])}
\* the blocks that were split before the last call
SplitBefore == {b \in DOMAIN mmu64_call.before : IsTable64(mmu64_call.before[b])}

\* C25: a maintain_pages call that returns gives every block it splits a page
\* table that no level-1 entry pointed at before the call (a call that finds
\* no such page table does not return).
C25_UnusedPageTablePerSplit ==
    (mmu64_call.op = "maintain_pages" /\ mmu64_call.outcome = "ok") =>
        \A b \in NewlySplit : \A c \in SplitBefore :
           AddressOf64(mmu64_cfg.ttlb_lvl1[b]) # AddressOf64(mmu64_call.before[c])

\* a call on block 1 returned after block 0 had been split: the new Table
\* entry of block 1 holds the address block 0's Table entry held already
C25_Witness ==
    /\ mmu64_call.op = "maintain_pages"
    /\ mmu64_call.outcome = "ok"
    /\ SplitBlock = 1
    /\ 1 \in NewlySplit
    /\ 0 \in SplitBefore
    /\ mmu64_cfg.ttlb_lvl1[1] = mmu64_call.before[0]

\* the last call asked for a page range that runs over the end of a block into
\* the next one, both level-1 entries being Block entries
CrossesBlock ==
    /\ mmu64_call.op = "maintain_pages"
    /\ SplitBlock + 1 < LVL1_ENTRIES_64
    /\ SplitStart + mmu64_call.page_count > PAGES_PER_BLOCK
    /\ SplitStart + mmu64_call.page_count <= 2 * PAGES_PER_BLOCK
    /\ IsBlock64(mmu64_call.before[SplitBlock])
    /\ IsBlock64(mmu64_call.before[SplitBlock + 1])
\* the second block's level-1 entry points at ttlb_lvl2[512], and the 512
\* entries from there are Page entries of the second block, those outside the
\* range with the profile of the second block's original entry
SecondBlockSplit ==
    /\ IsTable64(mmu64_cfg.ttlb_lvl1[SplitBlock + 1])
    /\ AddressOf64(mmu64_cfg.ttlb_lvl1[SplitBlock + 1]) = PageTableAddress64[PAGES_PER_BLOCK]
    /\ \A i \in 0..(PAGES_PER_BLOCK - 1) :
          /\ MapsPage(PAGES_PER_BLOCK, i, SplitBlock + 1)
          /\ (PAGES_PER_BLOCK + i) \notin SplitRange =>
                SameProfile(mmu64_cfg.ttlb_lvl2[PAGES_PER_BLOCK + i],
                            mmu64_call.before[SplitBlock + 1])

\* C26: every maintain_pages call whose range crosses into a second block
\* returns with the second block's level-1 entry a Table entry pointing at the
\* second page table, that page table filled to the end of the second block,
\* and the entries outside the range carrying the second block's attributes.
C26_SecondBlockSplit ==
    CrossesBlock => (mmu64_call.outcome = "ok" /\ SecondBlockSplit)

\* pages 500..519 from block 0: the call returned and block 1 is split
C26_Witness ==
    /\ CrossesBlock
    /\ SplitBlock = 0
    /\ mmu64_call.outcome = "ok"
    /\ SecondBlockSplit

\* the position in the step log of the last call where page-table entry i is
\* stored: the loops store the entries in ascending order from entry 0
StoredAt(i) == i + 1
\* in the step log of the last call, the entries of page table t are all
\* stored ahead of position k
StoredBefore(t, k) ==
    \A i \in 0..(PAGES_PER_BLOCK - 1) :
       /\ StoredAt(t + i) < k
       /\ StoredAt(t + i) \in DOMAIN mmu64_call.steps
       /\ mmu64_call.steps[StoredAt(t + i)] = [t |-> "lvl2", i |-> t + i]

\* C29: in the step log of every maintain_pages call, a store that replaces a
\* Block entry of level 1 by a Table entry comes after the stores of all 512
\* entries of the page table that the Table entry points at.
C29_PagesBeforeParent ==
    mmu64_call.op = "maintain_pages" =>
        \A k \in DOMAIN mmu64_call.steps :
           (/\ mmu64_call.steps[k].t = "lvl1"
            /\ IsBlock64(mmu64_call.before[mmu64_call.steps[k].i])) =>
              \E t \in PageTables64 :
                 /\ AddressOf64(mmu64_cfg.ttlb_lvl1[mmu64_call.steps[k].i])
                        = PageTableAddress64[t]
                 /\ StoredBefore(t, k)

\* a call across the end of block 0 returned: both level-1 entries were
\* Block entries and are Table entries now, stored last
C29_Witness ==
    /\ CrossesBlock
    /\ mmu64_call.outcome = "ok"
    /\ NewlySplit = {0, 1}
    /\ \E k \in DOMAIN mmu64_call.steps :
          /\ mmu64_call.steps[k] = [t |-> "lvl1", i |-> 0]
          /\ mmu64_call.steps[k + 1] = [t |-> "lvl1", i |-> 1]
          /\ k = LVL2_ENTRIES_64 + 1

\* C30: a maintain_pages call that returns, for a page range with
\* SplitStart + page_count <= 512 in a block whose level-1 entry was a Block,
\* leaves every other level-1 entry as it was and stores no entry of the
\* second page table.
C30_OneBlockOnly ==
    (SplitsOneBlock /\ mmu64_call.outcome = "ok") =>
        /\ \A b \in DOMAIN mmu64_cfg.ttlb_lvl1 :
              b # SplitBlock => mmu64_cfg.ttlb_lvl1[b] = mmu64_call.before[b]
        /\ \A k \in DOMAIN mmu64_call.steps :
              mmu64_call.steps[k].t = "lvl2" => mmu64_call.steps[k].i < PAGES_PER_BLOCK

\* pages 510 and 511 of block 0: the call returned, the level-1 entry of
\* block 1 is a Table entry now and entry 512 of ttlb_lvl2 was stored
C30_Witness ==
    /\ SplitsOneBlock
    /\ mmu64_call.outcome = "ok"
    /\ mmu64_call.page_from = 510
    /\ mmu64_call.page_count = 2
    /\ 1 \in NewlySplit
    /\ mmu64_call.steps[StoredAt(PAGES_PER_BLOCK)] = [t |-> "lvl2", i |-> PAGES_PER_BLOCK]

(***************************************************************************)
(* The table walk of an address returned by map_memory (specification      *)
(* SpecFill)                                                               *)
(***************************************************************************)
\* with T1SZ = 25 the addresses translated through TTBR1_EL1 have bits 63:39
\* set; bits 38:30 select the level-1 entry, bits 29:21 the level-2 entry
UpperRangeBits == 39..63
\* the table index held in bits lo..hi of the address va
IndexOf(va, lo, hi) == ToNat(Shr(And(va, lo..hi), lo))
\* the index in ttlb_lvl2 of the entry that the walk of va reaches through the
\* level-1 entry w of the virtual set, -1 when the walk stops at w
WalkThrough(w, va) ==
    IF FieldGet(w, TABLE_TYPE) # FromNat(TABLE_TYPE_VALID) THEN -1
    ELSE IF And(w, FieldMask(TABLE_ADDR)) = FromNat(Lvl2Addr(CFG1_BASE, 0))
    THEN IndexOf(va, SECTION_SHIFT, 29)
    ELSE IF And(w, FieldMask(TABLE_ADDR)) = FromNat(Lvl2Addr(CFG1_BASE, LVL1_ENTRIES))
    THEN LVL1_ENTRIES + IndexOf(va, SECTION_SHIFT, 29)
    ELSE -1

\* C28: the address returned by a map_memory call at level 1 lies in the range
\* translated through the virtual set; its walk passes a valid level-1 Table
\* entry and ends at the level-2 entry this call wrote, a Block entry whose
\* output address with the offset of the returned address is the origin.
C28_ReturnedAddressWalks ==
    (last.op = "map_memory" /\ last.outcome = "ok") =>
        /\ UpperRangeBits \subseteq last.ret
        /\ WalkThrough(cfg1_lvl1[IndexOf(last.ret, 30, 38)], last.ret) = last.idx
        /\ cfg1_lvl2[last.idx] = TlbValue(last.origin, last.attrs)
        /\ EntryType(cfg1_lvl2[last.idx]) = BLOCK_TYPE_VALID
        /\ Or(OutputAddress(cfg1_lvl2[last.idx]), OffsetOf(last.ret)) = last.origin

\* in a build without overflow checks the call that found index 512 free has
\* returned: the address it returned lies below the range of the virtual set
C28_Witness ==
    /\ last.op = "map_memory"
    /\ last.outcome = "ok"
    /\ last.idx = LVL1_ENTRIES
    /\ cfg1_lvl2[last.idx] = TlbValue(last.origin, last.attrs)
    /\ UpperRangeBits \cap last.ret = {}

(***************************************************************************)
(* initialize on several cores (specification SpecBoot)                    *)
(***************************************************************************)
\* the physical table set as one build with the Raspberry Pi 3 arguments
\* leaves it
BootTables ==
    Ttbr0Setup(0, BootArgs.start, BootArgs.size, ZeroLvl1, ZeroLvl2, FALSE)
IdentityMapComplete ==
    /\ cfg0_lvl1 = BootTables.lvl1
    /\ cfg0_lvl2 = BootTables.lvl2
\* core 0 is past the stores of a build of the physical set and not inside a
\* later one
Core0Done ==
    /\ racers[0].calls >= 1
    /\ racers[0].pc \in {"device", "ttbr1", "enabled"}
\* core 0 has not finished the stores of its first build
Core0FirstBuildOpen ==
    \/ racers[0].calls = 0
    \/ racers[0].calls = 1 /\ racers[0].pc \in {"disabled", "lvl1", "normal", "vc"}

\* C27: in every interleaving of the steps of initialize on cores 0 and 1, a
\* step of core 1 changes no table entry; a core that enables translation
\* while core 0 is past a build and not inside another one enables it over the
\* complete identity map; and a core whose enable step comes while core 0 has
\* not finished its first build (no step waits for core 0) enables
\* translation over an incomplete physical set.
C27_BootCoordination ==
    [][\A c \in Cores :
         /\ (c # 0 /\ racers'[c] # racers[c]) => UNCHANGED <<tables0, tables1>>
         /\ (racers[c].pc = "ttbr1" /\ racers'[c].pc = "enabled") =>
               /\ Core0Done => IdentityMapComplete'
               /\ Core0FirstBuildOpen => ~IdentityMapComplete']_vars

\* core 1 has translation on while core 0 is between the normal pass and the
\* VideoCore pass of its first build: the device window is not mapped yet
C27_Witness ==
    /\ racers[1].pc = "enabled"
    /\ racers[0].calls = 1
    /\ racers[0].pc = "normal"
    /\ cfg0_lvl2[DEVICE_FIRST] = {}
    /\ ~IdentityMapComplete
    /\ ttbr0_reg = Lvl1Addr(CFG0_BASE, 0)

====
